---- MODULE Spec2Model ----
(***************************************************************************)
(* routine_load_info.py: inventory of routine load jobs, PAUSE/RESUME      *)
(* statements and patched re-creation statements.                          *)
(*                                                                         *)
(* Python strings are sequences of one-character strings, so that the      *)
(* regular expressions, the JSON decoding and the int()/str() conversions  *)
(* of the source are computed character by character.                      *)
(***************************************************************************)
EXTENDS Integers, Sequences, FiniteSets, TLC

VARIABLES
    pc,     \* position of the running function (a patch rule's harness, or main())
    args,   \* arguments of the pure function under check
    ret,    \* sequence of the outcomes of the calls made so far
    env,    \* the database: schemas, SHOW ROUTINE LOAD rows, SHOW CREATE rows
    inp,    \* what the operator typed at main()'s prompts
    loc,    \* main()'s and its callees' local variables
    conn,   \* connections: opened, closed, and the one the current call holds
    io      \* queries issued to the database and lines printed as the report

vars == <<pc, args, ret, env, inp, loc, conn, io>>

(***************************************************************************)
(* Bounds of the model.                                                    *)
(***************************************************************************)
MaxPairs == 2       \* key/value pairs in a generated Progress object
MaxOccur == 2       \* occurrences of a pattern in a generated definition text
MaxNames == 2       \* job names of one table
MaxTables == 2      \* table keys of one mapping
MaxSchemas == 2     \* schemas of a server

(***************************************************************************)
(* Characters and character classes (re's \s, \w, [0-9]).                  *)
(***************************************************************************)
Digits == <<"0", "1", "2", "3", "4", "5", "6", "7", "8", "9">>

Lower == <<"a", "b", "c", "d", "e", "f", "g", "h", "i", "j", "k", "l", "m",
           "n", "o", "p", "q", "r", "s", "t", "u", "v", "w", "x", "y", "z">>

Upper == <<"A", "B", "C", "D", "E", "F", "G", "H", "I", "J", "K", "L", "M",
           "N", "O", "P", "Q", "R", "S", "T", "U", "V", "W", "X", "Y", "Z">>

Range(f) == {f[i] : i \in DOMAIN f}

IsDigit(c) == c \in Range(Digits)

IsSpace(c) == c \in {" ", "\t", "\n", "\r", "\f"}

IsWord(c) == c \in Range(Digits) \cup Range(Lower) \cup Range(Upper) \cup {"_"}

DigitVal(c) == CHOOSE d \in 0..9 : Digits[d + 1] = c

\* s[i..] starts with the literal lit
StartsAt(s, i, lit) ==
    /\ i + Len(lit) - 1 <= Len(s)
    /\ SubSeq(s, i, i + Len(lit) - 1) = lit

\* str.startswith / str.endswith
StartsWith(s, lit) == StartsAt(s, 1, lit)

EndsWith(s, lit) ==
    /\ Len(lit) <= Len(s)
    /\ SubSeq(s, Len(s) - Len(lit) + 1, Len(s)) = lit

\* index past the longest run of \s starting at i (a greedy \s*)
RECURSIVE SkipSpace(_, _)
SkipSpace(s, i) ==
    IF i <= Len(s) /\ IsSpace(s[i]) THEN SkipSpace(s, i + 1) ELSE i

\* sep.join(parts)
RECURSIVE Join(_, _)
Join(parts, sep) ==
    IF parts = <<>> THEN <<>>
    ELSE IF Len(parts) = 1 THEN parts[1]
    ELSE parts[1] \o sep \o Join(Tail(parts), sep)

\* str.strip()
RECURSIVE LStrip(_)
LStrip(s) == IF s # <<>> /\ IsSpace(s[1]) THEN LStrip(Tail(s)) ELSE s

RECURSIVE RStrip(_)
RStrip(s) ==
    IF s # <<>> /\ IsSpace(s[Len(s)]) THEN RStrip(SubSeq(s, 1, Len(s) - 1)) ELSE s

Strip(s) == RStrip(LStrip(s))

(***************************************************************************)
(* int(x) for a str x, and str(n) for an int n.                            *)
(***************************************************************************)
\* a digit string as int() accepts it: digits, single underscores between them
IsIntBody(b) ==
    /\ b # <<>>
    /\ IsDigit(b[1]) /\ IsDigit(b[Len(b)])
    /\ \A i \in 1..Len(b) : IsDigit(b[i]) \/ b[i] = "_"
    /\ \A i \in 1..(Len(b) - 1) : ~(b[i] = "_" /\ b[i + 1] = "_")

RECURSIVE IntBodyValue(_)
IntBodyValue(b) ==
    IF b = <<>> THEN 0
    ELSE IF b[Len(b)] = "_" THEN IntBodyValue(SubSeq(b, 1, Len(b) - 1))
    ELSE 10 * IntBodyValue(SubSeq(b, 1, Len(b) - 1)) + DigitVal(b[Len(b)])

\* int(text): surrounding whitespace and one sign are accepted; anything else
\* is a ValueError (ok = FALSE)
PyIntOfStr(text) ==
    LET u == Strip(text)
        signed == u # <<>> /\ u[1] \in {"+", "-"}
        body == IF signed THEN Tail(u) ELSE u
    IN  IF IsIntBody(body)
        THEN [ok |-> TRUE,
              val |-> IF signed /\ u[1] = "-" THEN 0 - IntBodyValue(body)
                      ELSE IntBodyValue(body)]
        ELSE [ok |-> FALSE, val |-> 0]

RECURSIVE NatToStr(_)
NatToStr(n) ==
    IF n < 10 THEN <<Digits[n + 1]>>
    ELSE Append(NatToStr(n \div 10), Digits[(n % 10) + 1])

\* str(n)
PyStr(n) == IF n < 0 THEN <<"-">> \o NatToStr(0 - n) ELSE NatToStr(n)

(***************************************************************************)
(* json.loads, for the texts replace_kafka_offsets hands it: an object     *)
(* whose members are strings, numbers without exponent, or the literals    *)
(* null/true/false.  A nested container ends in the same except clause of  *)
(* the caller (json error, or int() TypeError) and is a failure here.      *)
(***************************************************************************)
JsonFail == [ok |-> FALSE, next |-> 0, value |-> [kind |-> "none"], pairs |-> <<>>]

IsJsonWs(c) == c \in {" ", "\t", "\n", "\r"}

RECURSIVE JsonSkipWs(_, _)
JsonSkipWs(s, i) ==
    IF i <= Len(s) /\ IsJsonWs(s[i]) THEN JsonSkipWs(s, i + 1) ELSE i

\* index of the quote closing a string whose content starts at j; 0 when it is
\* unterminated or holds a control character (strict decoding)
RECURSIVE JsonStringEnd(_, _)
JsonStringEnd(s, j) ==
    IF j > Len(s) THEN 0
    ELSE IF s[j] = "\"" THEN j
    ELSE IF s[j] \in {"\t", "\n", "\r", "\f", "\\"} THEN 0
    ELSE JsonStringEnd(s, j + 1)

RECURSIVE DigitsEnd(_, _)
DigitsEnd(s, i) ==
    IF i <= Len(s) /\ IsDigit(s[i]) THEN DigitsEnd(s, i + 1) ELSE i

\* NUMBER_RE (-?(?:0|[1-9]\d*))(\.\d+)? at i; a float keeps its integer part,
\* which is what int() makes of it
JsonNumber(s, i) ==
    LET neg == i <= Len(s) /\ s[i] = "-"
        a == IF neg THEN i + 1 ELSE i
        b == IF a <= Len(s) /\ s[a] = "0" THEN a + 1 ELSE DigitsEnd(s, a)
        f == IF b <= Len(s) /\ s[b] = "." THEN DigitsEnd(s, b + 1) ELSE b
        e == IF f > b + 1 THEN f ELSE b
        n == IntBodyValue(SubSeq(s, a, b - 1))
    IN  IF b = a THEN JsonFail
        ELSE [ok |-> TRUE, next |-> e, pairs |-> <<>>,
              value |-> [kind |-> "num", num |-> IF neg THEN 0 - n ELSE n]]

JsonNull == <<"n", "u", "l", "l">>
JsonTrue == <<"t", "r", "u", "e">>
JsonFalse == <<"f", "a", "l", "s", "e">>

JsonValue(s, i) ==
    IF i > Len(s) THEN JsonFail
    ELSE IF s[i] = "\"" THEN
        LET e == JsonStringEnd(s, i + 1)
        IN  IF e = 0 THEN JsonFail
            ELSE [ok |-> TRUE, next |-> e + 1, pairs |-> <<>>,
                  value |-> [kind |-> "str", text |-> SubSeq(s, i + 1, e - 1)]]
    ELSE IF s[i] = "-" \/ IsDigit(s[i]) THEN JsonNumber(s, i)
    ELSE IF StartsAt(s, i, JsonNull) THEN
        [ok |-> TRUE, next |-> i + 4, pairs |-> <<>>, value |-> [kind |-> "null"]]
    ELSE IF StartsAt(s, i, JsonTrue) THEN
        [ok |-> TRUE, next |-> i + 4, pairs |-> <<>>, value |-> [kind |-> "num", num |-> 1]]
    ELSE IF StartsAt(s, i, JsonFalse) THEN
        [ok |-> TRUE, next |-> i + 5, pairs |-> <<>>, value |-> [kind |-> "num", num |-> 0]]
    ELSE JsonFail

\* the members of an object, i at the quote that must open the next key
RECURSIVE JsonMembers(_, _, _)
JsonMembers(s, i, acc) ==
    IF ~(i <= Len(s) /\ s[i] = "\"") THEN JsonFail
    ELSE
      LET ke == JsonStringEnd(s, i + 1)
          c == JsonSkipWs(s, ke + 1)
          v == JsonValue(s, JsonSkipWs(s, c + 1))
          d == JsonSkipWs(s, v.next)
          acc2 == Append(acc, [key |-> SubSeq(s, i + 1, ke - 1), value |-> v.value])
      IN  IF ke = 0 THEN JsonFail
          ELSE IF ~(c <= Len(s) /\ s[c] = ":") THEN JsonFail
          ELSE IF ~v.ok THEN JsonFail
          ELSE IF d > Len(s) THEN JsonFail
          ELSE IF s[d] = "}" THEN
              [ok |-> TRUE, next |-> d + 1, value |-> [kind |-> "object"], pairs |-> acc2]
          ELSE IF s[d] = "," THEN JsonMembers(s, JsonSkipWs(s, d + 1), acc2)
          ELSE JsonFail

\* json.loads(s) for a text that starts with "{": the pairs in text order
json_loads(s) ==
    LET a == JsonSkipWs(s, 2)
        obj == IF a <= Len(s) /\ s[a] = "}"
               THEN [ok |-> TRUE, next |-> a + 1, value |-> [kind |-> "object"],
                     pairs |-> <<>>]
               ELSE JsonMembers(s, a, <<>>)
    IN  IF obj.ok /\ JsonSkipWs(s, obj.next) = Len(s) + 1 THEN obj ELSE JsonFail

\* dict(pairs): the keys in order of first insertion ...
RECURSIVE DictKeys(_)
DictKeys(pairs) ==
    IF pairs = <<>> THEN <<>>
    ELSE LET front == DictKeys(SubSeq(pairs, 1, Len(pairs) - 1))
             k == pairs[Len(pairs)].key
         IN  IF k \in Range(front) THEN front ELSE Append(front, k)

\* ... each with the value of its last occurrence
DictGet(pairs, k) ==
    LET last == CHOOSE j \in 1..Len(pairs) :
                    /\ pairs[j].key = k
                    /\ \A m \in (j + 1)..Len(pairs) : pairs[m].key # k
    IN  pairs[last].value

\* int(v) of a decoded JSON value
PyInt(v) ==
    IF v.kind = "str" THEN PyIntOfStr(v.text)
    ELSE IF v.kind = "num" THEN [ok |-> TRUE, val |-> v.num]
    ELSE [ok |-> FALSE, val |-> 0]

(***************************************************************************)
(* replace_kafka_offsets                                                   *)
(***************************************************************************)
KafkaOffsetsKey == <<"k", "a", "f", "k", "a", "_", "o", "f", "f", "s", "e", "t", "s", "\"">>

KafkaOffsetsRepl == <<"k", "a", "f", "k", "a", "_", "o", "f", "f", "s", "e", "t", "s", "\"", " ", "=", " ", "\"">>

\* index past the longest run of [0-9,\s] starting at i
RECURSIVE SkipOffsetChars(_, _)
SkipOffsetChars(s, i) ==
    IF i <= Len(s) /\ (IsDigit(s[i]) \/ s[i] = "," \/ IsSpace(s[i]))
    THEN SkipOffsetChars(s, i + 1) ELSE i

\* r'kafka_offsets"\s*=\s*"[0-9,\s]*"' matched at i: the index past the match,
\* 0 when there is none (each greedy run is followed by a character outside
\* its class, so no backtracking changes the outcome)
KafkaOffsetsMatchEnd(s, i) ==
    LET a == SkipSpace(s, i + Len(KafkaOffsetsKey))
        b == SkipSpace(s, a + 1)
        c == SkipOffsetChars(s, b + 1)
    IN  IF ~StartsAt(s, i, KafkaOffsetsKey) THEN 0
        ELSE IF ~(a <= Len(s) /\ s[a] = "=") THEN 0
        ELSE IF ~(b <= Len(s) /\ s[b] = "\"") THEN 0
        ELSE IF c <= Len(s) /\ s[c] = "\"" THEN c + 1
        ELSE 0

\* repl(m) of replace_kafka_offsets
KafkaRepl(new_offsets) == KafkaOffsetsRepl \o new_offsets \o <<"\"">>

\* the substitution with count=1: the leftmost match only
SubKafkaOffsetsOnce(s, i, new_offsets) ==
    LET hits == {j \in i..Len(s) : KafkaOffsetsMatchEnd(s, j) # 0}
        j == CHOOSE j \in hits : \A k \in hits : j <= k
    IN  IF hits = {} THEN SubSeq(s, i, Len(s))
        ELSE SubSeq(s, i, j - 1) \o KafkaRepl(new_offsets)
             \o SubSeq(s, KafkaOffsetsMatchEnd(s, j), Len(s))

\* re.sub(pattern, repl, create_sql) from index i on: no count is given, so
\* every non-overlapping match is replaced, leftmost first
RECURSIVE SubKafkaOffsets(_, _, _)
SubKafkaOffsets(s, i, new_offsets) ==
    LET hits == {j \in i..Len(s) : KafkaOffsetsMatchEnd(s, j) # 0}
        j == CHOOSE j \in hits : \A k \in hits : j <= k
    IN  IF hits = {} THEN SubSeq(s, i, Len(s))
        ELSE SubSeq(s, i, j - 1) \o KafkaRepl(new_offsets)
             \o SubKafkaOffsets(s, KafkaOffsetsMatchEnd(s, j), new_offsets)

\* the keys left in the order the object lists them
InsertionOrder(keys) == keys

\* sorted(keys, key=lambda x: int(x)): a stable sort, so a key goes behind
\* every key already placed whose int value is not larger
RECURSIVE SortedByInt(_)
SortedByInt(keys) ==
    IF keys = <<>> THEN <<>>
    ELSE LET front == SortedByInt(SubSeq(keys, 1, Len(keys) - 1))
             k == keys[Len(keys)]
             n == Cardinality({j \in 1..Len(front) :
                      PyIntOfStr(front[j]).val <= PyIntOfStr(k).val})
         IN  SubSeq(front, 1, n) \o <<k>> \o SubSeq(front, n + 1, Len(front))

\* ', '.join(str(int(obj[k]) + 1) for k in keys)
NewOffsets(pairs, keys) ==
    Join([i \in 1..Len(keys) |-> PyStr(PyInt(DictGet(pairs, keys[i])).val + 1)],
         <<",", " ">>)

RaisedInTry == [raised |-> TRUE, value |-> <<>>]

\* the try block from sorted() on, for the decoded object: int() of a key or
\* of a value may raise
ReplaceWithObject(create_sql, pairs, keys) ==
    IF \E i \in 1..Len(keys) : ~PyIntOfStr(keys[i]).ok THEN RaisedInTry
    ELSE IF \E i \in 1..Len(keys) : ~PyInt(DictGet(pairs, keys[i])).ok THEN RaisedInTry
    ELSE [raised |-> FALSE,
          value |-> SubKafkaOffsets(create_sql, 1, NewOffsets(pairs, SortedByInt(keys)))]

\* the try block after json.loads
ReplaceWithParsed(create_sql, parsed) ==
    IF ~parsed.ok THEN RaisedInTry
    ELSE ReplaceWithObject(create_sql, parsed.pairs, DictKeys(parsed.pairs))

\* the body of the try block: [raised, value]; startswith of a value that is
\* not a str raises
ReplaceKafkaOffsetsTry(create_sql, progress_json) ==
    IF progress_json.type # "str" THEN RaisedInTry
    ELSE IF ~StartsWith(progress_json.text, <<"{">>)
    THEN [raised |-> FALSE, value |-> create_sql]
    ELSE ReplaceWithParsed(create_sql, json_loads(progress_json.text))

\* the try block without its except clause
NoExcept(body, create_sql) == body

\* except Exception: return create_sql
ExceptReturn(body, create_sql) ==
    IF body.raised THEN [raised |-> FALSE, value |-> create_sql] ELSE body

replace_kafka_offsets(create_sql, progress_json) ==
    ExceptReturn(ReplaceKafkaOffsetsTry(create_sql, progress_json), create_sql)

(***************************************************************************)
(* patch_create_sql_dbname                                                 *)
(***************************************************************************)
Create == <<"C", "R", "E", "A", "T", "E">>

Routine == <<"R", "O", "U", "T", "I", "N", "E">>

Load == <<"L", "O", "A", "D">>

On == <<"O", "N">>

\* index past the longest run of \w starting at i
RECURSIVE SkipWord(_, _)
SkipWord(s, i) ==
    IF i <= Len(s) /\ IsWord(s[i]) THEN SkipWord(s, i + 1) ELSE i

NoMatch == [end |-> 0, g1 |-> <<>>, g2 |-> <<>>, g3 |-> <<>>]

\* r'(CREATE\s+ROUTINE\s+LOAD\s+)(\w+)(\s+ON\s+)' matched at i: the index past
\* the match and its three groups, end = 0 when there is no match
HeaderMatch(s, i) ==
    LET a == i + Len(Create)
        b == SkipSpace(s, a)
        c == b + Len(Routine)
        d == SkipSpace(s, c)
        e == d + Len(Load)
        f == SkipSpace(s, e)
        g == SkipWord(s, f)
        h == SkipSpace(s, g)
        k == h + Len(On)
        m == SkipSpace(s, k)
    IN  IF ~StartsAt(s, i, Create) \/ b = a THEN NoMatch
        ELSE IF ~StartsAt(s, b, Routine) \/ d = c THEN NoMatch
        ELSE IF ~StartsAt(s, d, Load) \/ f = e THEN NoMatch
        ELSE IF g = f \/ h = g THEN NoMatch
        ELSE IF ~StartsAt(s, h, On) \/ m = k THEN NoMatch
        ELSE [end |-> m, g1 |-> SubSeq(s, i, f - 1), g2 |-> SubSeq(s, f, g - 1),
              g3 |-> SubSeq(s, g, m - 1)]

\* chr(n) for 0o100 <= n <= 0o177
Ascii64 == <<"@", "A", "B", "C", "D", "E", "F", "G", "H", "I", "J", "K", "L", "M", "N", "O", "P", "Q", "R", "S", "T", "U", "V", "W", "X", "Y", "Z", "[", "\\", "]", "^", "_", "GRAVE", "a", "b", "c", "d", "e", "f", "g", "h", "i", "j", "k", "l", "m", "n", "o", "p", "q", "r", "s", "t", "u", "v", "w", "x", "y", "z", "{", "|", "}", "~", "DEL">>

IsOctDigit(c) == IsDigit(c) /\ DigitVal(c) <= 7

\* The replacement r'\1' + f'{dbname}.{routinename}' + r'\3' is a template:
\* the digits that open dbname are read with the \1 before them.  Two octal
\* digits make \1dd an octal escape (one character, group 1 is dropped); one
\* other digit makes \1d a reference to a group the pattern does not have,
\* and re.sub raises re.error.  Names hold no backslash.
\* [raised, usesg1, middle]: the text between \1 (when kept) and \3
DbnameTemplate(dbname, routinename) ==
    LET tail == <<".">> \o routinename
    IN  IF dbname = <<>> \/ ~IsDigit(dbname[1])
        THEN [raised |-> FALSE, usesg1 |-> TRUE, middle |-> dbname \o tail]
        ELSE IF Len(dbname) >= 2 /\ IsOctDigit(dbname[1]) /\ IsOctDigit(dbname[2])
        THEN [raised |-> FALSE, usesg1 |-> FALSE,
              middle |-> <<Ascii64[8 * DigitVal(dbname[1]) + DigitVal(dbname[2]) + 1]>>
                         \o SubSeq(dbname, 3, Len(dbname)) \o tail]
        ELSE [raised |-> TRUE, usesg1 |-> FALSE, middle |-> <<>>]

\* the substitution without count: every header
RECURSIVE SubHeaderEvery(_, _, _)
SubHeaderEvery(s, i, tpl) ==
    LET hits == {j \in i..Len(s) : HeaderMatch(s, j).end # 0}
        j == CHOOSE j \in hits : \A k \in hits : j <= k
        m == HeaderMatch(s, j)
    IN  IF hits = {} THEN SubSeq(s, i, Len(s))
        ELSE SubSeq(s, i, j - 1)
             \o (IF tpl.usesg1 THEN m.g1 ELSE <<>>) \o tpl.middle \o m.g3
             \o SubHeaderEvery(s, m.end, tpl)

\* re.sub(pattern, replacement, create_sql, count=1) from index i on
SubHeaderOnce(s, i, tpl) ==
    LET hits == {j \in i..Len(s) : HeaderMatch(s, j).end # 0}
        j == CHOOSE j \in hits : \A k \in hits : j <= k
        m == HeaderMatch(s, j)
    IN  IF hits = {} THEN SubSeq(s, i, Len(s))
        ELSE SubSeq(s, i, j - 1)
             \o (IF tpl.usesg1 THEN m.g1 ELSE <<>>) \o tpl.middle \o m.g3
             \o SubSeq(s, m.end, Len(s))

patch_create_sql_dbname(create_sql, dbname, routinename) ==
    LET tpl == DbnameTemplate(dbname, routinename)
    IN  IF tpl.raised THEN [raised |-> TRUE, value |-> <<>>]
        ELSE [raised |-> FALSE, value |-> SubHeaderOnce(create_sql, 1, tpl)]

(***************************************************************************)
(* patch_group_id                                                          *)
(***************************************************************************)
GroupIdHead == <<"\"", "p", "r", "o", "p", "e", "r", "t", "y", ".", "g", "r", "o", "u", "p">>

GroupIdTail == <<"i", "d", "\"">>

GroupIdNew == <<"\"", "p", "r", "o", "p", "e", "r", "t", "y", ".", "g", "r", "o", "u", "p", ".", "i", "d", "\"", " ", "=", " ", "\"">>

NewSuffix == <<"_", "n", "e", "w">>

\* index past the longest run of [^"] starting at i
RECURSIVE SkipNonQuote(_, _)
SkipNonQuote(s, i) ==
    IF i <= Len(s) /\ s[i] # "\"" THEN SkipNonQuote(s, i + 1) ELSE i

\* r'"property\.group.id"\s*=\s*"([^"]+)"' matched at i: the dot between group
\* and id is not escaped and stands for any character but a newline
GroupIdMatch(s, i) ==
    LET w == i + Len(GroupIdHead)
        a == SkipSpace(s, w + 1 + Len(GroupIdTail))
        b == SkipSpace(s, a + 1)
        c == SkipNonQuote(s, b + 1)
        none == [end |-> 0, value |-> <<>>]
    IN  IF ~StartsAt(s, i, GroupIdHead) THEN none
        ELSE IF ~(w <= Len(s) /\ s[w] # "\n") THEN none
        ELSE IF ~StartsAt(s, w + 1, GroupIdTail) THEN none
        ELSE IF ~(a <= Len(s) /\ s[a] = "=") THEN none
        ELSE IF ~(b <= Len(s) /\ s[b] = "\"") THEN none
        ELSE IF c = b + 1 \/ c > Len(s) THEN none
        ELSE [end |-> c + 1, value |-> SubSeq(s, b + 1, c - 1)]

\* the replacement without the test for the suffix
GroupIdReplAlways(whole, old_value) ==
    GroupIdNew \o old_value \o NewSuffix \o <<"\"">>

\* repl(m) of patch_group_id; whole is m.group(0), old_value is m.group(1)
GroupIdRepl(whole, old_value) ==
    IF EndsWith(old_value, NewSuffix) THEN whole
    ELSE GroupIdNew \o old_value \o NewSuffix \o <<"\"">>

\* re.sub(pattern, repl, create_sql) from index i on
RECURSIVE SubGroupId(_, _)
SubGroupId(s, i) ==
    LET hits == {j \in i..Len(s) : GroupIdMatch(s, j).end # 0}
        j == CHOOSE j \in hits : \A k \in hits : j <= k
        m == GroupIdMatch(s, j)
    IN  IF hits = {} THEN SubSeq(s, i, Len(s))
        ELSE SubSeq(s, i, j - 1) \o GroupIdRepl(SubSeq(s, j, m.end - 1), m.value)
             \o SubGroupId(s, m.end)

patch_group_id(create_sql) == [raised |-> FALSE, value |-> SubGroupId(create_sql, 1)]

(***************************************************************************)
(* generate_pause_resume_sql                                               *)
(***************************************************************************)
PauseHead == <<"P", "A", "U", "S", "E", " ", "R", "O", "U", "T", "I", "N", "E", " ", "L", "O", "A", "D", " ", "F", "O", "R", " ">>

ResumeHead == <<"R", "E", "S", "U", "M", "E", " ", "R", "O", "U", "T", "I", "N", "E", " ", "L", "O", "A", "D", " ", "F", "O", "R", " ">>

\* the characters of names, in code point order
CodePoints == <<"-", ".", "0", "1", "2", "3", "4", "5", "6", "7", "8", "9", ":">>
              \o Upper \o <<"_">> \o Lower

Ord(c) == CHOOSE n \in DOMAIN CodePoints : CodePoints[n] = c

\* a < b for two str: the first differing character decides, a proper prefix
\* is smaller
RECURSIVE StrLess(_, _)
StrLess(a, b) ==
    IF b = <<>> THEN FALSE
    ELSE IF a = <<>> THEN TRUE
    ELSE IF a[1] = b[1] THEN StrLess(Tail(a), Tail(b))
    ELSE Ord(a[1]) < Ord(b[1])

\* the names from the largest down
RECURSIVE SortedStrDescending(_)
SortedStrDescending(names) ==
    IF names = {} THEN <<>>
    ELSE LET most == CHOOSE n \in names : \A m \in names : m = n \/ StrLess(m, n)
         IN  <<most>> \o SortedStrDescending(names \ {most})

\* sorted(list(names)) for a set of str
RECURSIVE SortedStr(_)
SortedStr(names) ==
    IF names = {} THEN <<>>
    ELSE LET least == CHOOSE n \in names : \A m \in names : m = n \/ StrLess(n, m)
         IN  <<least>> \o SortedStr(names \ {least})

\* index of the first "." of s, 0 when it has none
FirstDot(s) ==
    IF \E i \in 1..Len(s) : s[i] = "."
    THEN CHOOSE i \in 1..Len(s) : s[i] = "." /\ \A j \in 1..(i - 1) : s[j] # "."
    ELSE 0

\* one tuple of the result: (dbtable, names_sorted, pause_sqls, resume_sqls)
PauseResumeTuple(dbtable, db, names) ==
    LET names_sorted == SortedStr(names)
    IN  [dbtable |-> dbtable,
         names |-> names_sorted,
         pause_sqls |-> [i \in 1..Len(names_sorted) |->
             PauseHead \o db \o <<".">> \o names_sorted[i] \o <<";">>],
         resume_sqls |-> [i \in 1..Len(names_sorted) |->
             ResumeHead \o db \o <<".">> \o names_sorted[i] \o <<";">>]]

\* the loop over dbtable_to_names.items(), a dict given as the sequence of its
\* items; a filter that is None or "" is the empty sequence
RECURSIVE PauseResumeLoop(_, _, _)
PauseResumeLoop(items, filter_db, filter_table) ==
    IF items = <<>> THEN <<>>
    ELSE LET dbtable == items[1].key
             dot == FirstDot(dbtable)
             db == SubSeq(dbtable, 1, dot - 1)
             table == SubSeq(dbtable, dot + 1, Len(dbtable))
             rest == PauseResumeLoop(Tail(items), filter_db, filter_table)
         IN  IF filter_db # <<>> /\ db # filter_db THEN rest
             ELSE IF filter_table # <<>> /\ table # filter_table THEN rest
             ELSE <<PauseResumeTuple(dbtable, db, items[1].names)>> \o rest

\* db, table = dbtable.split('.', 1) raises ValueError for a key without "."
generate_pause_resume_sql(dbtable_to_names, filter_db, filter_table) ==
    IF \E i \in DOMAIN dbtable_to_names : FirstDot(dbtable_to_names[i].key) = 0
    THEN [raised |-> TRUE, value |-> <<>>]
    ELSE [raised |-> FALSE,
          value |-> PauseResumeLoop(dbtable_to_names, filter_db, filter_table)]

(***************************************************************************)
(* clean_dbname, and dicts: a dict is the sequence of its items            *)
(* [key, value] in insertion order.  None and "" are both the empty        *)
(* sequence: the source only ever tests them for truth or compares them    *)
(* with a non-empty filter.                                                *)
(***************************************************************************)
DefaultCluster == <<"d", "e", "f", "a", "u", "l", "t", "_", "c", "l", "u", "s", "t", "e", "r", ":">>

\* dbname.split(":", 1)[1] when dbname starts with "default_cluster:"
clean_dbname(dbname) ==
    IF dbname # <<>> /\ StartsWith(dbname, DefaultCluster)
    THEN SubSeq(dbname, Len(DefaultCluster) + 1, Len(dbname))
    ELSE dbname

DictHas(items, k) == \E i \in DOMAIN items : items[i].key = k

DictAt(items, k) == items[CHOOSE i \in DOMAIN items : items[i].key = k].value

\* items[k] = v
DictPut(items, k, v) ==
    IF DictHas(items, k)
    THEN [i \in DOMAIN items |-> IF items[i].key = k THEN [key |-> k, value |-> v]
                                 ELSE items[i]]
    ELSE Append(items, [key |-> k, value |-> v])

(***************************************************************************)
(* fetch_routine_load_info: the loop over the rows of SHOW ROUTINE LOAD    *)
(***************************************************************************)
RECURSIVE FilteredRows(_, _)
FilteredRows(rows, filter_table) ==
    IF rows = <<>> THEN <<>>
    ELSE LET filtered == [Name |-> rows[1].Name,
                          DbName |-> clean_dbname(rows[1].DbName),
                          TableName |-> rows[1].TableName,
                          Progress |-> rows[1].Progress]
             rest == FilteredRows(Tail(rows), filter_table)
         IN  IF filter_table # <<>> /\ filtered.TableName # filter_table THEN rest
             ELSE <<filtered>> \o rest

(***************************************************************************)
(* get_dbtable_to_names                                                    *)
(***************************************************************************)
RECURSIVE AllRows(_)
AllRows(infos) ==
    IF infos = <<>> THEN <<>> ELSE infos[1].value \o AllRows(Tail(infos))

RECURSIVE AddNames(_, _)
AddNames(rows, acc) ==
    IF rows = <<>> THEN acc
    ELSE LET dbname == clean_dbname(rows[1].DbName)
             tablename == rows[1].TableName
             name == rows[1].Name
             key == dbname \o <<".">> \o tablename
             added == IF DictHas(acc, key)
                      THEN [i \in DOMAIN acc |->
                               IF acc[i].key = key
                               THEN [acc[i] EXCEPT !.names = @ \cup {name}]
                               ELSE acc[i]]
                      ELSE Append(acc, [key |-> key, names |-> {name}])
         IN  IF dbname # <<>> /\ tablename # <<>> /\ name # <<>>
             THEN AddNames(Tail(rows), added)
             ELSE AddNames(Tail(rows), acc)

get_dbtable_to_names(routine_load_infos) == AddNames(AllRows(routine_load_infos), <<>>)

(***************************************************************************)
(* fetch_create_routine_load: the column of the row that is returned       *)
(***************************************************************************)
\* row[2] if len(row) > 2 else (row[1] if len(row) > 1 else row[0]); "" for
\* no row
CreateSqlOf(row) ==
    IF row = <<>> THEN <<>>
    ELSE IF Len(row) > 2 THEN row[3]
    ELSE IF Len(row) > 1 THEN row[2]
    ELSE row[1]

(***************************************************************************)
(* get_routine_load_create_sqls_with_offsets: the three patch rules        *)
(***************************************************************************)
\* the text as patch_create_sql_dbname left it
KeepGroupId(patched) == patched

\* create_sql_new = patch_group_id(create_sql_new), reached unless
\* patch_create_sql_dbname raised
ThenPatchGroupId(patched) ==
    IF patched.raised THEN patched ELSE patch_group_id(patched.value)

(***************************************************************************)
(* The pure patch rules are checked one call at a time: Init draws the     *)
(* arguments, the action makes the call and records its outcome in ret.    *)
(* main() is not running in these specifications.                          *)
(***************************************************************************)
runvars == <<env, inp, loc, conn, io>>

NotRunning ==
    /\ env = <<>> /\ inp = <<>> /\ loc = <<>> /\ conn = <<>> /\ io = <<>>

SeqsUpTo(S, n) == UNION {[1..m -> S] : m \in 0..n}

(***************************************************************************)
(* Arguments for replace_kafka_offsets.  A definition text is a list of    *)
(* properties; a Progress value is rendered the way the server prints it   *)
(* ({"partition":"offset",...}) from a list of pairs, or is one of the     *)
(* irregular values.  Each argument carries what it was built from (segs, *)
(* kind, pairs), which the patch rule never reads.                         *)
(***************************************************************************)
SegStandard == <<"\"", "k", "a", "f", "k", "a", "_", "o", "f", "f", "s", "e", "t", "s", "\"", " ", "=", " ", "\"", "1", "0", ",", "2", "0", "\"">>

SegTight == <<"\"", "k", "a", "f", "k", "a", "_", "o", "f", "f", "s", "e", "t", "s", "\"", "=", "\"", "5", "\"">>

SegSymbolic == <<"\"", "k", "a", "f", "k", "a", "_", "o", "f", "f", "s", "e", "t", "s", "\"", " ", "=", " ", "\"", "O", "F", "F", "S", "E", "T", "_", "E", "N", "D", "\"">>

SegSpread == <<"\"", "k", "a", "f", "k", "a", "_", "o", "f", "f", "s", "e", "t", "s", "\"", " ", " ", "=", "\n", "\"", "7", ",", " ", "8", "\"">>

\* numeric: the value is made of digits, commas and whitespace only
OffsetSegments ==
    { [text |-> SegStandard, numeric |-> TRUE],
      [text |-> SegTight, numeric |-> TRUE],
      [text |-> SegSpread, numeric |-> TRUE],
      [text |-> SegSymbolic, numeric |-> FALSE] }

RenderProperties(segs) ==
    <<"(">> \o Join([i \in 1..Len(segs) |-> segs[i].text], <<",", "\n">>) \o <<")", ";">>

OffsetKeys == { [key |-> <<"2">>, num |-> 2], [key |-> <<"1", "0">>, num |-> 10] }

OffsetValues == { [value |-> <<"9">>, next |-> <<"1", "0">>],
                  [value |-> <<"1", "9">>, next |-> <<"2", "0">>] }

OffsetPairs ==
    { [key |-> k.key, num |-> k.num, value |-> v.value, next |-> v.next] :
        k \in OffsetKeys, v \in OffsetValues }

RenderPair(p) == <<"\"">> \o p.key \o <<"\"", ":", "\"">> \o p.value \o <<"\"">>

RenderObject(pairs) ==
    <<"{">> \o Join([i \in 1..Len(pairs) |-> RenderPair(pairs[i])], <<",">>) \o <<"}">>

RegularProgress ==
    { [type |-> "str", text |-> RenderObject(ps), kind |-> "object", pairs |-> ps] :
        ps \in SeqsUpTo(OffsetPairs, MaxPairs) }

IrregularProgress ==
    { \* OK
      [type |-> "str", text |-> <<"O", "K">>, kind |-> "nonjson", pairs |-> <<>>],
      \* the empty string
      [type |-> "str", text |-> <<>>, kind |-> "nonjson", pairs |-> <<>>],
      \*  {"2":"9"}  behind a blank: it does not start with "{"
      [type |-> "str", text |-> <<" ", "{", "\"", "2", "\"", ":", "\"", "9", "\"", "}">>,
       kind |-> "nonjson", pairs |-> <<>>],
      \* {"2":"9"
      [type |-> "str", text |-> <<"{", "\"", "2", "\"", ":", "\"", "9", "\"">>,
       kind |-> "malformed", pairs |-> <<>>],
      \* {"2":"9",}
      [type |-> "str", text |-> <<"{", "\"", "2", "\"", ":", "\"", "9", "\"", ",", "}">>,
       kind |-> "malformed", pairs |-> <<>>],
      \* {"2":"9"} x
      [type |-> "str", text |-> <<"{", "\"", "2", "\"", ":", "\"", "9", "\"", "}", " ", "x">>,
       kind |-> "malformed", pairs |-> <<>>],
      \* {"a":"9"}
      [type |-> "str", text |-> <<"{", "\"", "a", "\"", ":", "\"", "9", "\"", "}">>,
       kind |-> "badkey", pairs |-> <<>>],
      \* {"2":"x"}
      [type |-> "str", text |-> <<"{", "\"", "2", "\"", ":", "\"", "x", "\"", "}">>,
       kind |-> "badvalue", pairs |-> <<>>],
      \* {"2":"1.5"}
      [type |-> "str", text |-> <<"{", "\"", "2", "\"", ":", "\"", "1", ".", "5", "\"", "}">>,
       kind |-> "badvalue", pairs |-> <<>>],
      \* {"2":null}
      [type |-> "str", text |-> <<"{", "\"", "2", "\"", ":", "n", "u", "l", "l", "}">>,
       kind |-> "badvalue", pairs |-> <<>>],
      \* a value that is no str (and no bytes): json.loads raises TypeError
      [type |-> "other", text |-> <<>>, kind |-> "nonstring", pairs |-> <<>>],
      \* { "2" : 9 , "10" : "19" }
      [type |-> "str",
       text |-> <<"{", " ", "\"", "2", "\"", " ", ":", " ", "9", " ", ",", " ", "\"", "1", "0", "\"", " ", ":", " ", "\"", "1", "9", "\"", " ", "}">>,
       kind |-> "object",
       pairs |-> << [key |-> <<"2">>, num |-> 2, value |-> <<"9">>, next |-> <<"1", "0">>],
                    [key |-> <<"1", "0">>, num |-> 10, value |-> <<"1", "9">>, next |-> <<"2", "0">>] >>],
      \* {"01":"19","1":"9"}
      [type |-> "str",
       text |-> <<"{", "\"", "0", "1", "\"", ":", "\"", "1", "9", "\"", ",", "\"", "1", "\"", ":", "\"", "9", "\"", "}">>,
       kind |-> "object",
       pairs |-> << [key |-> <<"0", "1">>, num |-> 1, value |-> <<"1", "9">>, next |-> <<"2", "0">>],
                    [key |-> <<"1">>, num |-> 1, value |-> <<"9">>, next |-> <<"1", "0">>] >>],
      \* {"2":"-1"}
      [type |-> "str", text |-> <<"{", "\"", "2", "\"", ":", "\"", "-", "1", "\"", "}">>,
       kind |-> "object",
       pairs |-> << [key |-> <<"2">>, num |-> 2, value |-> <<"-", "1">>, next |-> <<"0">>] >>] }

ProgressValues == RegularProgress \cup IrregularProgress

OffsetsInputs ==
    { [create_sql |-> RenderProperties(segs), segs |-> segs, progress_json |-> p] :
        segs \in SeqsUpTo(OffsetSegments, MaxOccur), p \in ProgressValues }

InitOffsets ==
    /\ pc = "call"
    /\ args \in OffsetsInputs
    /\ ret = <<>>
    /\ NotRunning

CallReplaceKafkaOffsets ==
    /\ pc = "call"
    /\ ret' = <<replace_kafka_offsets(args.create_sql, args.progress_json)>>
    /\ pc' = "returned"
    /\ UNCHANGED <<args, runvars>>

NextOffsets == CallReplaceKafkaOffsets

SpecOffsets == InitOffsets /\ [][NextOffsets]_vars

(***************************************************************************)
(* What the arguments were built from, for stating the claims.             *)
(***************************************************************************)
\* s cut at every occurrence of sep
RECURSIVE SplitAt(_, _)
SplitAt(s, sep) ==
    IF \E i \in 1..Len(s) : StartsAt(s, i, sep)
    THEN LET i == CHOOSE i \in 1..Len(s) :
                      /\ StartsAt(s, i, sep)
                      /\ \A j \in 1..(i - 1) : ~StartsAt(s, j, sep)
         IN  <<SubSeq(s, 1, i - 1)>> \o SplitAt(SubSeq(s, i + Len(sep), Len(s)), sep)
    ELSE <<s>>

\* the properties of a text "(p1,\np2,...);"
PropertiesOf(text) ==
    IF Len(text) <= 3 THEN <<>>
    ELSE SplitAt(SubSeq(text, 2, Len(text) - 2), <<",", "\n">>)

PairKeys(pairs) == {pairs[i].key : i \in DOMAIN pairs}

FirstAt(pairs, k) ==
    CHOOSE i \in DOMAIN pairs :
        pairs[i].key = k /\ \A j \in 1..(i - 1) : pairs[j].key # k

LastAt(pairs, k) ==
    CHOOSE i \in DOMAIN pairs :
        pairs[i].key = k /\ \A j \in (i + 1)..Len(pairs) : pairs[j].key # k

\* key a comes before key b: by integer value, equal values as inserted
KeyBefore(pairs, a, b) ==
    LET na == pairs[FirstAt(pairs, a)].num
        nb == pairs[FirstAt(pairs, b)].num
    IN  na < nb \/ (na = nb /\ FirstAt(pairs, a) < FirstAt(pairs, b))

\* [int(progress[k]) + 1 for k in keys ascending by int(k)], joined with ", "
ExpectedOffsets(pairs) ==
    LET keys == PairKeys(pairs)
        rank(k) == 1 + Cardinality({a \in keys : KeyBefore(pairs, a, k)})
    IN  Join([r \in 1..Cardinality(keys) |->
                 pairs[LastAt(pairs, CHOOSE k \in keys : rank(k) = r)].next],
             <<",", " ">>)

\* the property "kafka_offsets" = "<offsets>"
OffsetsProperty(offsets) == <<"\"">> \o KafkaOffsetsRepl \o offsets \o <<"\"">>

NumericAt(segs) == {i \in DOMAIN segs : segs[i].numeric}

Returned == pc = "returned" /\ Len(ret) = 1

ParsesAsObject == args.progress_json.kind = "object"

(* C1: when the Progress value is a JSON object text with integer-like keys
   and values, every kafka_offsets property of the definition text (value
   made of digits, commas, blanks) gets as its new value the offsets + 1 in
   ascending order of the integer value of their keys, joined with ", ". *)
C1_NumericKeyOrder ==
    (Returned /\ ParsesAsObject) =>
        /\ ~ret[1].raised
        /\ Len(PropertiesOf(ret[1].value)) = Len(args.segs)
        /\ \A i \in NumericAt(args.segs) :
              PropertiesOf(ret[1].value)[i] =
                  OffsetsProperty(ExpectedOffsets(args.progress_json.pairs))

\* a rewritten text whose Progress lists partition 10 before partition 2
C1_Witness ==
    /\ Returned /\ ParsesAsObject
    /\ NumericAt(args.segs) # {}
    /\ ret[1].value # args.create_sql
    /\ \E i, j \in DOMAIN args.progress_json.pairs :
          /\ i < j
          /\ args.progress_json.pairs[i].num > args.progress_json.pairs[j].num

(* C2: a Progress value that does not start with "{", that is malformed
   JSON, that has a non-integer key or value, or that is no string, leaves
   the definition text as it was, and no error is raised. *)
C2_UnparsedUnchanged ==
    (Returned /\ ~ParsesAsObject) =>
        ret[1] = [raised |-> FALSE, value |-> args.create_sql]

C2_Witness ==
    /\ Returned
    /\ args.progress_json.kind = "badvalue"
    /\ NumericAt(args.segs) # {}

\* the text with the properties at the indexes in which given the new offsets
PatchedAt(segs, which, offsets) ==
    RenderProperties([i \in DOMAIN segs |->
        IF i \in which THEN [text |-> OffsetsProperty(offsets), numeric |-> TRUE]
        ELSE segs[i]])

FirstNumeric(segs) ==
    {i \in NumericAt(segs) : \A j \in NumericAt(segs) : i <= j}

(* C9 as amended: when the Progress value parses, every occurrence of the
   pattern in the definition text is replaced with the new offsets, and the
   rest of the text is kept. *)
C9_EveryOccurrence ==
    (Returned /\ ParsesAsObject) =>
        ret[1].value = PatchedAt(args.segs, NumericAt(args.segs),
                                 ExpectedOffsets(args.progress_json.pairs))

(* C9 as stated: only the first occurrence is replaced, a later occurrence
   keeps its original value. *)
C9_OnlyFirstOccurrence ==
    (Returned /\ ParsesAsObject) =>
        ret[1].value = PatchedAt(args.segs, FirstNumeric(args.segs),
                                 ExpectedOffsets(args.progress_json.pairs))

\* two occurrences, both rewritten
C9_Witness ==
    /\ Returned /\ ParsesAsObject
    /\ Cardinality(NumericAt(args.segs)) >= 2
    /\ \A i \in NumericAt(args.segs) :
          PropertiesOf(ret[1].value)[i] # args.segs[i].text

(***************************************************************************)
(* patch_group_id: called on a definition text, then on its own result.    *)
(***************************************************************************)
GroupSegments ==
    { \* "property.group.id" = "g1"
      [text |-> <<"\"", "p", "r", "o", "p", "e", "r", "t", "y", ".", "g", "r", "o", "u", "p", ".", "i", "d", "\"", " ", "=", " ", "\"", "g", "1", "\"">>],
      \* "property.group.id"="g1_new"
      [text |-> <<"\"", "p", "r", "o", "p", "e", "r", "t", "y", ".", "g", "r", "o", "u", "p", ".", "i", "d", "\"", "=", "\"", "g", "1", "_", "n", "e", "w", "\"">>],
      \* "property.group-id" =\n"a_ne"
      [text |-> <<"\"", "p", "r", "o", "p", "e", "r", "t", "y", ".", "g", "r", "o", "u", "p", "-", "i", "d", "\"", " ", "=", "\n", "\"", "a", "_", "n", "e", "\"">>],
      \* "property.group.id" = ""
      [text |-> <<"\"", "p", "r", "o", "p", "e", "r", "t", "y", ".", "g", "r", "o", "u", "p", ".", "i", "d", "\"", " ", "=", " ", "\"", "\"">>],
      \* "property.group.id" = "x_new_new"
      [text |-> <<"\"", "p", "r", "o", "p", "e", "r", "t", "y", ".", "g", "r", "o", "u", "p", ".", "i", "d", "\"", " ", "=", " ", "\"", "x", "_", "n", "e", "w", "_", "n", "e", "w", "\"">>],
      \* "property.group.id" = "g    (the value is closed by a later quote)
      [text |-> <<"\"", "p", "r", "o", "p", "e", "r", "t", "y", ".", "g", "r", "o", "u", "p", ".", "i", "d", "\"", " ", "=", " ", "\"", "g">>],
      \* "kafka_topic" = "t"
      [text |-> <<"\"", "k", "a", "f", "k", "a", "_", "t", "o", "p", "i", "c", "\"", " ", "=", " ", "\"", "t", "\"">>] }

GroupIdInputs ==
    { [create_sql |-> RenderProperties(segs), segs |-> segs] :
        segs \in SeqsUpTo(GroupSegments, MaxOccur) }

InitGroupId ==
    /\ pc = "call"
    /\ args \in GroupIdInputs
    /\ ret = <<>>
    /\ NotRunning

CallPatchGroupId ==
    /\ pc = "call"
    /\ ret' = <<patch_group_id(args.create_sql)>>
    /\ pc' = "returned"
    /\ UNCHANGED <<args, runvars>>

CallPatchGroupIdAgain ==
    /\ pc = "returned"
    /\ ret' = Append(ret, patch_group_id(ret[1].value))
    /\ pc' = "returned_twice"
    /\ UNCHANGED <<args, runvars>>

NextGroupId == CallPatchGroupId \/ CallPatchGroupIdAgain

SpecGroupId == InitGroupId /\ [][NextGroupId]_vars

\* the values of the group-id assignments of a text
RECURSIVE GroupIdValues(_, _)
GroupIdValues(s, i) ==
    LET hits == {j \in i..Len(s) : GroupIdMatch(s, j).end # 0}
        j == CHOOSE j \in hits : \A k \in hits : j <= k
        m == GroupIdMatch(s, j)
    IN  IF hits = {} THEN {}
        ELSE {m.value} \cup GroupIdValues(s, m.end)

(* C3: patch_group_id is idempotent: applied to its own output it returns
   that output, and no group-id value of the output ends in _new_new unless
   a value of the input already did. *)
C3_Idempotent ==
    /\ pc = "returned_twice" => ret[2] = ret[1]
    /\ pc \in {"returned", "returned_twice"} =>
          \A v \in GroupIdValues(ret[1].value, 1) :
              EndsWith(v, NewSuffix \o NewSuffix) =>
                  v \in GroupIdValues(args.create_sql, 1)

\* a text with a value that got the suffix and one that had it already
C3_Witness ==
    /\ pc = "returned_twice"
    /\ ret[1].value # args.create_sql
    /\ \E v \in GroupIdValues(args.create_sql, 1) : EndsWith(v, NewSuffix)
    /\ \E v \in GroupIdValues(args.create_sql, 1) : ~EndsWith(v, NewSuffix)

(***************************************************************************)
(* patch_create_sql_dbname.  Schema and job names are identifiers as the   *)
(* server accepts them: a letter, then letters, digits, "_" or "-".  The   *)
(* text is the definition of the job routinename, so its first header, if  *)
(* it has one, names that job.                                             *)
(***************************************************************************)
SchemaNames == { <<"d", "b", "1">>, <<"d", "_", "2">> }

JobNames == { <<"j", "1">>, <<"j", "o", "b", "_", "2">> }

HeaderHeads ==
    { \* CREATE ROUTINE LOAD
      [text |-> <<"C", "R", "E", "A", "T", "E", " ", "R", "O", "U", "T", "I", "N", "E", " ", "L", "O", "A", "D", " ">>, ok |-> TRUE],
      \* create routine load
      [text |-> <<"c", "r", "e", "a", "t", "e", " ", "r", "o", "u", "t", "i", "n", "e", " ", "l", "o", "a", "d", " ">>, ok |-> FALSE] }

HeaderNames ==
    { [text |-> n, ok |-> TRUE] : n \in JobNames }
    \cup { \* my-job: not made of word characters only
           [text |-> <<"m", "y", "-", "j", "o", "b">>, ok |-> FALSE] }

HeaderTails ==
    { \*  ON t1\n
      [text |-> <<" ", "O", "N", " ", "t", "1", "\n">>, ok |-> TRUE],
      \* \nON\n\nt1
      [text |-> <<"\n", "O", "N", "\n", "\n", "t", "1", " ">>, ok |-> TRUE],
      \*  ON(t1)
      [text |-> <<" ", "O", "N", "(", "t", "1", ")">>, ok |-> FALSE] }

\* header: the segment has the shape CREATE ROUTINE LOAD <name> ON
HeaderSegments ==
    { [text |-> h.text \o n.text \o t.text, head |-> h.text, name |-> n.text,
       tail |-> t.text, header |-> h.ok /\ n.ok /\ t.ok] :
        h \in HeaderHeads, n \in HeaderNames, t \in HeaderTails }

RenderStatements(segs) ==
    Join([i \in 1..Len(segs) |-> segs[i].text], <<";", "\n">>)

HeadersAt(segs) == {i \in DOMAIN segs : segs[i].header}

FirstHeader(segs) == {i \in HeadersAt(segs) : \A j \in HeadersAt(segs) : i <= j}

DbnameInputs ==
    { a \in [create_sql : {<<>>}, segs : SeqsUpTo(HeaderSegments, MaxOccur),
             dbname : SchemaNames, routinename : JobNames] :
        \A i \in FirstHeader(a.segs) : a.segs[i].name = a.routinename }

InitDbname ==
    /\ pc = "call"
    /\ \E a \in DbnameInputs : args = [a EXCEPT !.create_sql = RenderStatements(a.segs)]
    /\ ret = <<>>
    /\ NotRunning

CallPatchCreateSqlDbname ==
    /\ pc = "call"
    /\ ret' = <<patch_create_sql_dbname(args.create_sql, args.dbname, args.routinename)>>
    /\ pc' = "returned"
    /\ UNCHANGED <<args, runvars>>

NextDbname == CallPatchCreateSqlDbname

SpecDbname == InitDbname /\ [][NextDbname]_vars

(* C4: patch_create_sql_dbname rewrites only the first header CREATE ROUTINE
   LOAD <name> ON of the text, its <name> becoming <schema>.<name>; a later
   header is left as it was, and a text without such a header is returned
   unchanged. *)
C4_FirstHeaderOnly ==
    Returned =>
        ret[1] = [raised |-> FALSE,
                  value |-> RenderStatements([i \in DOMAIN args.segs |->
                      IF i \in FirstHeader(args.segs)
                      THEN [text |-> args.segs[i].head \o args.dbname \o <<".">>
                                     \o args.segs[i].name \o args.segs[i].tail]
                      ELSE args.segs[i]])]

\* two headers: the first is qualified, the second is not
C4_Witness ==
    /\ Returned
    /\ Cardinality(HeadersAt(args.segs)) >= 2
    /\ ret[1].value # args.create_sql

(***************************************************************************)
(* generate_pause_resume_sql, on a mapping as get_dbtable_to_names builds  *)
(* it: keys "schema.table", each with a set of job names.                  *)
(***************************************************************************)
TableNames == { <<"t", "1">>, <<"t", "2">> }

\* names whose order differs between code points, length and case
SortNames == { <<"a">>, <<"a", "b">>, <<"B">> }

NameSets == {ns \in SUBSET SortNames : Cardinality(ns) \in 1..MaxNames}

TableItems ==
    { [key |-> d \o <<".">> \o t, schema |-> d, table |-> t, names |-> ns] :
        d \in SchemaNames, t \in TableNames, ns \in NameSets }

PauseInputs ==
    { [dbtable_to_names |-> items, filter_db |-> fd, filter_table |-> ft] :
        items \in {q \in SeqsUpTo(TableItems, MaxTables) :
                      \A i, j \in DOMAIN q : i # j => q[i].key # q[j].key},
        fd \in {<<>>} \cup SchemaNames,
        ft \in {<<>>, <<"t", "1">>} }

InitPause ==
    /\ pc = "call"
    /\ args \in PauseInputs
    /\ ret = <<>>
    /\ NotRunning

CallGeneratePauseResumeSql ==
    /\ pc = "call"
    /\ ret' = <<generate_pause_resume_sql(args.dbtable_to_names, args.filter_db,
                                           args.filter_table)>>
    /\ pc' = "returned"
    /\ UNCHANGED <<args, runvars>>

NextPause == CallGeneratePauseResumeSql

SpecPause == InitPause /\ [][NextPause]_vars

\* the item passes the optional schema and table filters
PassesFilters(item, fd, ft) ==
    /\ fd = <<>> \/ item.schema = fd
    /\ ft = <<>> \/ item.table = ft

\* the subsequence of the items that pass
RECURSIVE Passing(_, _, _)
Passing(items, fd, ft) ==
    IF items = <<>> THEN <<>>
    ELSE (IF PassesFilters(items[1], fd, ft) THEN <<items[1]>> ELSE <<>>)
         \o Passing(Tail(items), fd, ft)

(* C5: generate_pause_resume_sql returns one tuple for every table key that
   passes the optional filters and for no other key; its name list holds the
   key's job names in ascending lexicographic order without duplicates, and
   pause[i] / resume[i] are the PAUSE / RESUME statements for
   <schema>.<names[i]>, the lists being as long as the name list. *)
C5_PauseResume ==
    Returned =>
        LET want == Passing(args.dbtable_to_names, args.filter_db, args.filter_table)
            got == ret[1].value
        IN  /\ ~ret[1].raised
            /\ Len(got) = Len(want)
            /\ \A t \in DOMAIN got :
                  /\ got[t].dbtable = want[t].key
                  /\ Range(got[t].names) = want[t].names
                  /\ \A i, j \in DOMAIN got[t].names :
                        i < j => StrLess(got[t].names[i], got[t].names[j])
                  /\ DOMAIN got[t].pause_sqls = DOMAIN got[t].names
                  /\ DOMAIN got[t].resume_sqls = DOMAIN got[t].names
                  /\ \A i \in DOMAIN got[t].names :
                        /\ got[t].pause_sqls[i] =
                               PauseHead \o want[t].schema \o <<".">>
                               \o got[t].names[i] \o <<";">>
                        /\ got[t].resume_sqls[i] =
                               ResumeHead \o want[t].schema \o <<".">>
                               \o got[t].names[i] \o <<";">>

\* a key is filtered out, another one is kept with several names
C5_Witness ==
    /\ Returned
    /\ Len(ret[1].value) >= 1
    /\ Len(ret[1].value) < Len(args.dbtable_to_names)
    /\ \E t \in DOMAIN ret[1].value : Len(ret[1].value[t].names) >= 2

(***************************************************************************)
(* A run of main() against a server.  env is what the server holds:        *)
(* schemas, the rows of SHOW ROUTINE LOAD per schema (a column the server  *)
(* sends as NULL is the empty sequence) and the row of SHOW CREATE ROUTINE *)
(* LOAD per job, whose width depends on the server version.  Every connect *)
(* and every execute may fail.                                             *)
(***************************************************************************)
DefinitionHead ==
    <<"C", "R", "E", "A", "T", "E", " ", "R", "O", "U", "T", "I", "N", "E",
      " ", "L", "O", "A", "D", " ">>

DefinitionOn ==
    <<" ", "O", "N", " ">>

DefinitionBody ==
    <<"\n", "P", "R", "O", "P", "E", "R", "T", "I", "E", "S", "\n", "(", "\n",
      "\"", "d", "e", "s", "i", "r", "e", "d", "_", "c", "o", "n", "c",
      "u", "r", "r", "e", "n", "t", "_", "n", "u", "m", "b", "e", "r",
      "\"", " ", "=", " ", "\"", "1", "\"", "\n", ")", "\n", "F", "R", "O",
      "M", " ", "K", "A", "F", "K", "A", "\n", "(", "\n", "\"", "k", "a",
      "f", "k", "a", "_", "t", "o", "p", "i", "c", "\"", " ", "=", " ",
      "\"", "t", "\"", ",", "\n", "\"", "p", "r", "o", "p", "e", "r", "t",
      "y", ".", "g", "r", "o", "u", "p", ".", "i", "d", "\"", " ", "=",
      " ", "\"", "g", "1", "\"", ",", "\n", "\"", "k", "a", "f", "k", "a",
      "_", "p", "a", "r", "t", "i", "t", "i", "o", "n", "s", "\"", " ",
      "=", " ", "\"", "2", ",", "1", "0", "\"", ",", "\n", "\"", "k", "a",
      "f", "k", "a", "_", "o", "f", "f", "s", "e", "t", "s", "\"", " ",
      "=", " ", "\"", "7", ",", "8", "\"", "\n", ")", ";", "\n">>

ProgressTwo ==
    <<"{", "\"", "1", "0", "\"", ":", "\"", "9", "\"", ",", "\"", "2", "\"",
      ":", "\"", "1", "9", "\"", "}">>

ProgressSymbolic ==
    <<"{", "\"", "0", "\"", ":", "\"", "O", "F", "F", "S", "E", "T", "_", "B",
      "E", "G", "I", "N", "N", "I", "N", "G", "\"", "}">>

ProgressOne ==
    <<"{", "\"", "0", "\"", ":", "\"", "5", "\"", "}">>

Separator ==
    <<"\n", "-", "-", "-", "-", "-", "-", "-", "-", "-", "-", "-", "-", "-",
      "-", "-", "-", "-", "-", "-", "-", "-", "-", "-", "-", "-", "-", "-",
      "-", "-", "-", "-", "-", "-", "-", "\n">>

DefinitionText(name, table) ==
    DefinitionHead \o name \o DefinitionOn \o table \o DefinitionBody

Job(name, dbname, table, progress, create_row) ==
    [Name |-> name, DbName |-> dbname, TableName |-> table, Progress |-> progress,
     create_row |-> create_row]

\* the schemas of the server, in the order the schema query returns them, and
\* the jobs of each
ServerSchemas == <<
    [schema |-> <<"d", "b", "1">>,
     jobs |-> <<
        Job(<<"j", "1">>, DefaultCluster \o <<"d", "b", "1">>, <<"t", "1">>, ProgressTwo,
            <<<<"7">>, <<"j", "1">>, DefinitionText(<<"j", "1">>, <<"t", "1">>)>>),
        Job(<<"j", "o", "b", "_", "2">>, <<"d", "b", "1">>, <<"t", "2">>, ProgressSymbolic,
            <<<<"j", "o", "b", "_", "2">>,
              DefinitionText(<<"j", "o", "b", "_", "2">>, <<"t", "2">>)>>),
        Job(<<"j", "3">>, <<"d", "b", "1">>, <<"t", "1">>, <<>>,
            <<DefinitionText(<<"j", "3">>, <<"t", "1">>)>>) >>],
    [schema |-> <<"d", "_", "2">>,
     jobs |-> <<
        Job(<<"j", "1">>, <<"d", "_", "2">>, <<"t", "1">>, ProgressOne,
            <<DefinitionText(<<"j", "1">>, <<"t", "1">>)>>),
        Job(<<"j", "4">>, <<"d", "_", "2">>, <<"t", "2">>, ProgressOne, <<>>) >>],
    [schema |-> <<"d", "b", "3">>,
     jobs |-> <<
        Job(<<>>, <<"d", "b", "3">>, <<"t", "1">>, ProgressOne, <<>>),
        Job(<<"j", "5">>, DefaultCluster \o <<"d", "b", "3">>, <<"t", "1">>, ProgressOne,
            <<<<"9">>, <<"j", "5">>, <<>>, <<"x">>>>) >>],
    [schema |-> <<"e", "4">>, jobs |-> <<>>] >>

\* a server holds the first n of them
Servers == {SubSeq(ServerSchemas, 1, n) : n \in 0..MaxSchemas}

\* the rows SHOW ROUTINE LOAD returns in schema db
JobsOf(server, db) ==
    IF \E i \in DOMAIN server : server[i].schema = db
    THEN server[CHOOSE i \in DOMAIN server : server[i].schema = db].jobs
    ELSE <<>>

\* the row SHOW CREATE ROUTINE LOAD FOR db.name returns, <<>> for none
CreateRowOf(server, db, name) ==
    LET jobs == JobsOf(server, db)
    IN  IF \E i \in DOMAIN jobs : jobs[i].Name = name
        THEN jobs[CHOOSE i \in DOMAIN jobs : jobs[i].Name = name].create_row
        ELSE <<>>

\* what the operator types
PortInputs == {<<>>, <<"9", "0", "3", "0">>, <<"x">>}

ModeInputs == {<<"1">>, <<" ", "2">>, <<"3">>, <<>>}

DbInputs == {<<>>, <<" ", "d", "b", "1">>}

TableInputs == {<<>>, <<"t", "1", " ">>}

DefaultPort == 3306

(***************************************************************************)
(* main().  loc holds the locals of main and of the function it is in,     *)
(* conn the connection of the call in progress and the counts of           *)
(* connections opened and closed, io the calls made to the server (with    *)
(* their outcome, which the code prints when it is a failure) and the      *)
(* lines printed once the mode is being served: msg is a fixed message,    *)
(* text a computed line.                                                   *)
(***************************************************************************)
Line(text) == [msg |-> "", text |-> text]

Message(msg) == [msg |-> msg, text |-> <<>>]

\* a dispatch that serves every mode but "1" as mode 2
BranchWithoutElse(mode) == IF mode = <<"1">> THEN "one" ELSE "two"

\* the branch main takes for a mode
Branch(mode) ==
    IF mode = <<"1">> THEN "one" ELSE IF mode = <<"2">> THEN "two" ELSE "invalid"

\* the lines main prints for the tuples of generate_pause_resume_sql
RECURSIVE PauseResumeReport(_)
PauseResumeReport(result) ==
    IF result = <<>> THEN <<>>
    ELSE LET t == result[1]
         IN  <<Line(t.dbtable \o <<":", " ">> \o Join(t.names, <<",", " ">>))>>
             \o [i \in DOMAIN t.pause_sqls |-> Line(t.pause_sqls[i])]
             \o [i \in DOMAIN t.resume_sqls |-> Line(t.resume_sqls[i])]
             \o <<Line(<<>>)>>
             \o PauseResumeReport(Tail(result))

\* all_sqls of main: sql.strip() for every db, for every name
RECURSIVE AllSqls(_)
AllSqls(create_sqls_dict) ==
    IF create_sqls_dict = <<>> THEN <<>>
    ELSE [k \in DOMAIN create_sqls_dict[1].value |->
             Strip(create_sqls_dict[1].value[k].value)]
         \o AllSqls(Tail(create_sqls_dict))

Logged(outcome, text) ==
    [io EXCEPT !.queries = Append(@, [call |-> loc.call, db |-> loc.db, name |-> loc.name,
                                      outcome |-> outcome, text |-> text])]

InitRun ==
    /\ pc = "CollectConnectionParams"
    /\ args = <<>>
    /\ ret = <<>>
    /\ env \in Servers
    /\ inp = [port |-> <<>>, mode |-> <<>>, filter_db |-> <<>>, filter_table |-> <<>>]
    /\ loc = [port |-> 0, mode |-> <<>>, filter_db |-> <<>>, filter_table |-> <<>>,
              call |-> "", db |-> <<>>, name |-> <<>>, fetched |-> <<>>,
              db_list |-> <<>>, i |-> 0, k |-> 0, routine_load_infos |-> <<>>,
              dbtable_to_names |-> <<>>, db_result |-> <<>>, result |-> <<>>,
              create_sqls_dict |-> <<>>]
    /\ conn = [cur |-> FALSE, opened |-> 0, closed |-> 0]
    /\ io = [queries |-> <<>>, report |-> <<>>]

\* port = int(port) if port else 3306
CollectConnectionParams ==
    /\ pc = "CollectConnectionParams"
    /\ \E port \in PortInputs :
          LET p == IF port # <<>> THEN PyIntOfStr(port)
                   ELSE [ok |-> TRUE, val |-> DefaultPort]
          IN  /\ inp' = [inp EXCEPT !.port = port]
              /\ IF p.ok
                 THEN pc' = "CollectMode" /\ loc' = [loc EXCEPT !.port = p.val]
                 ELSE pc' = "Raised" /\ loc' = loc
    /\ UNCHANGED <<args, ret, env, conn, io>>

CollectMode ==
    /\ pc = "CollectMode"
    /\ \E mode \in ModeInputs :
          /\ inp' = [inp EXCEPT !.mode = mode]
          /\ loc' = [loc EXCEPT !.mode = Strip(mode)]
    /\ pc' = "CollectFilters"
    /\ UNCHANGED <<args, ret, env, conn, io>>

CollectFilters ==
    /\ pc = "CollectFilters"
    /\ \E filter_db \in DbInputs, filter_table \in TableInputs :
          /\ inp' = [inp EXCEPT !.filter_db = filter_db, !.filter_table = filter_table]
          /\ loc' = [loc EXCEPT !.filter_db = Strip(filter_db),
                                !.filter_table = Strip(filter_table)]
    /\ pc' = "fetch_table_schemas"
    /\ UNCHANGED <<args, ret, env, conn, io>>

\* get_mysql_connection: pymysql.connect returns a connection
ConnectOk ==
    /\ pc = "connect"
    /\ conn' = [conn EXCEPT !.cur = TRUE, !.opened = @ + 1]
    /\ pc' = "execute"
    /\ UNCHANGED <<args, ret, env, inp, loc, io>>

\* get_mysql_connection: pymysql.connect raises, None is returned and the
\* caller returns its empty result
ConnectFails ==
    /\ pc = "connect"
    /\ io' = Logged("connect_failed", <<>>)
    /\ loc' = [loc EXCEPT !.fetched = <<>>]
    /\ pc' = "return"
    /\ UNCHANGED <<args, ret, env, inp, conn>>

\* the try block of the three fetch functions, when nothing in it raises
ExecuteOk ==
    /\ pc = "execute"
    /\ LET fetched ==
               IF loc.call = "schemas" THEN [i \in DOMAIN env |-> env[i].schema]
               ELSE IF loc.call = "jobs"
               THEN FilteredRows(JobsOf(env, loc.db), loc.filter_table)
               ELSE CreateSqlOf(CreateRowOf(env, loc.db, loc.name))
       IN  /\ loc' = [loc EXCEPT !.fetched = fetched]
           /\ io' = Logged("ok", IF loc.call = "create" THEN fetched ELSE <<>>)
    /\ pc' = "close"
    /\ UNCHANGED <<args, ret, env, inp, conn>>

\* the query raises and nothing catches it: the connection is closed, the
\* exception leaves main
ExecuteFailsUncaught ==
    /\ pc = "execute"
    /\ io' = Logged("execute_failed", <<>>)
    /\ conn' = [conn EXCEPT !.cur = FALSE, !.closed = @ + 1]
    /\ pc' = "Raised"
    /\ UNCHANGED <<args, ret, env, inp, loc>>

\* the query raises and no finally clause closes the connection
ExecuteFailsUnclosed ==
    /\ pc = "execute"
    /\ loc' = [loc EXCEPT !.fetched = <<>>]
    /\ io' = Logged("execute_failed", <<>>)
    /\ pc' = "return"
    /\ UNCHANGED <<args, ret, env, inp, conn>>

\* the try block when the query raises: the except clause prints, the result
\* keeps its initial empty value
ExecuteFails ==
    /\ pc = "execute"
    /\ loc' = [loc EXCEPT !.fetched = <<>>]
    /\ io' = Logged("execute_failed", <<>>)
    /\ pc' = "close"
    /\ UNCHANGED <<args, ret, env, inp, conn>>

\* finally: conn.close()
Close ==
    /\ pc = "close"
    /\ conn' = [conn EXCEPT !.cur = FALSE, !.closed = @ + 1]
    /\ pc' = "return"
    /\ UNCHANGED <<args, ret, env, inp, loc, io>>

\* main calls fetch_table_schemas
FetchTableSchemas ==
    /\ pc = "fetch_table_schemas"
    /\ loc' = [loc EXCEPT !.call = "schemas", !.db = <<>>, !.name = <<>>]
    /\ pc' = "connect"
    /\ UNCHANGED <<args, ret, env, inp, conn, io>>

\* fetch_table_schemas returns; main calls fetch_routine_load_info
ReturnSchemas ==
    /\ pc = "return" /\ loc.call = "schemas"
    /\ loc' = [loc EXCEPT !.db_list = loc.fetched, !.i = 1, !.routine_load_infos = <<>>]
    /\ pc' = "fetch_routine_load_info"
    /\ UNCHANGED <<args, ret, env, inp, conn, io>>

\* for db in db_list: if filter_db and db != filter_db: continue
JobsSkip ==
    /\ pc = "fetch_routine_load_info"
    /\ loc.i <= Len(loc.db_list)
    /\ loc.filter_db # <<>> /\ loc.db_list[loc.i] # loc.filter_db
    /\ loc' = [loc EXCEPT !.i = @ + 1]
    /\ UNCHANGED <<pc, args, ret, env, inp, conn, io>>

JobsCall ==
    /\ pc = "fetch_routine_load_info"
    /\ loc.i <= Len(loc.db_list)
    /\ ~(loc.filter_db # <<>> /\ loc.db_list[loc.i] # loc.filter_db)
    /\ loc' = [loc EXCEPT !.call = "jobs", !.db = loc.db_list[loc.i], !.name = <<>>]
    /\ pc' = "connect"
    /\ UNCHANGED <<args, ret, env, inp, conn, io>>

\* if db_result: result[db] = db_result
ReturnJobs ==
    /\ pc = "return" /\ loc.call = "jobs"
    /\ loc' = [loc EXCEPT
          !.routine_load_infos = IF loc.fetched # <<>> THEN DictPut(@, loc.db, loc.fetched)
                                 ELSE @,
          !.i = @ + 1]
    /\ pc' = "fetch_routine_load_info"
    /\ UNCHANGED <<args, ret, env, inp, conn, io>>

\* fetch_routine_load_info returns; main calls get_dbtable_to_names
JobsDone ==
    /\ pc = "fetch_routine_load_info"
    /\ loc.i > Len(loc.db_list)
    /\ loc' = [loc EXCEPT !.dbtable_to_names = get_dbtable_to_names(loc.routine_load_infos)]
    /\ pc' = "mode"
    /\ UNCHANGED <<args, ret, env, inp, conn, io>>

ModeOne ==
    /\ pc = "mode" /\ Branch(loc.mode) = "one"
    /\ \E result \in {generate_pause_resume_sql(loc.dbtable_to_names, loc.filter_db,
                                                loc.filter_table).value} :
          io' = [io EXCEPT !.report = PauseResumeReport(result)]
    /\ pc' = "Done"
    /\ UNCHANGED <<args, ret, env, inp, loc, conn>>

ModeTwo ==
    /\ pc = "mode" /\ Branch(loc.mode) = "two"
    /\ io' = [io EXCEPT !.report = <<Message("Getting routine load create statements...")>>]
    /\ loc' = [loc EXCEPT !.i = 1, !.k = 1, !.db_result = <<>>, !.result = <<>>]
    /\ pc' = "get_routine_load_create_sqls_with_offsets"
    /\ UNCHANGED <<args, ret, env, inp, conn>>

ModeInvalid ==
    /\ pc = "mode" /\ Branch(loc.mode) = "invalid"
    /\ io' = [io EXCEPT !.report = <<Message("Invalid mode number.")>>]
    /\ pc' = "Done"
    /\ UNCHANGED <<args, ret, env, inp, loc, conn>>

\* the item the loops of get_routine_load_create_sqls_with_offsets are at
CurrentItem == loc.routine_load_infos[loc.i].value[loc.k]

\* name and dbname and progress
Recreatable(item) ==
    item.Name # <<>> /\ clean_dbname(item.DbName) # <<>> /\ item.Progress # <<>>

AtItem ==
    /\ pc = "get_routine_load_create_sqls_with_offsets"
    /\ loc.i <= Len(loc.routine_load_infos)
    /\ loc.k <= Len(loc.routine_load_infos[loc.i].value)

\* if not (name and dbname and progress): continue
CreateSkip ==
    /\ AtItem
    /\ ~Recreatable(CurrentItem)
    /\ loc' = [loc EXCEPT !.k = @ + 1]
    /\ UNCHANGED <<pc, args, ret, env, inp, conn, io>>

\* fetch_create_routine_load(host, user, password, port, dbname, name)
CreateCall ==
    /\ AtItem
    /\ Recreatable(CurrentItem)
    /\ loc' = [loc EXCEPT !.call = "create",
                          !.db = clean_dbname(clean_dbname(CurrentItem.DbName)),
                          !.name = CurrentItem.Name]
    /\ pc' = "connect"
    /\ UNCHANGED <<args, ret, env, inp, conn, io>>

\* db_result[name] = create_sql_new, unless a patch rule raised
StoreCreateSql(item, new) ==
    IF new.raised
    THEN pc' = "Raised" /\ loc' = loc
    ELSE /\ loc' = [loc EXCEPT !.db_result = DictPut(@, item.Name, new.value),
                               !.k = @ + 1]
         /\ pc' = "get_routine_load_create_sqls_with_offsets"

\* if not create_sql: continue; otherwise create_sql_new is assigned by the
\* three patch rules in turn, of which patch_create_sql_dbname may raise
ReturnCreate ==
    /\ pc = "return" /\ loc.call = "create"
    /\ IF loc.fetched = <<>>
       THEN /\ loc' = [loc EXCEPT !.k = @ + 1]
            /\ pc' = "get_routine_load_create_sqls_with_offsets"
       ELSE \E replaced \in {replace_kafka_offsets(loc.fetched,
                                [type |-> "str", text |-> CurrentItem.Progress])} :
            \E qualified \in {patch_create_sql_dbname(replaced.value,
                                clean_dbname(CurrentItem.DbName), CurrentItem.Name)} :
            \E new \in {ThenPatchGroupId(qualified)} :
                StoreCreateSql(CurrentItem, new)
    /\ UNCHANGED <<args, ret, env, inp, conn, io>>

\* if db_result: result[db] = db_result
CreateNextDb ==
    /\ pc = "get_routine_load_create_sqls_with_offsets"
    /\ loc.i <= Len(loc.routine_load_infos)
    /\ loc.k > Len(loc.routine_load_infos[loc.i].value)
    /\ loc' = [loc EXCEPT
          !.result = IF loc.db_result # <<>>
                     THEN DictPut(@, loc.routine_load_infos[loc.i].key, loc.db_result)
                     ELSE @,
          !.i = @ + 1, !.k = 1, !.db_result = <<>>]
    /\ UNCHANGED <<pc, args, ret, env, inp, conn, io>>

\* return result
CreateReturn ==
    /\ pc = "get_routine_load_create_sqls_with_offsets"
    /\ loc.i > Len(loc.routine_load_infos)
    /\ loc' = [loc EXCEPT !.create_sqls_dict = loc.result]
    /\ pc' = "report"
    /\ UNCHANGED <<args, ret, env, inp, conn, io>>

ReportCreateSqls ==
    /\ pc = "report"
    /\ \E all_sqls \in {AllSqls(loc.create_sqls_dict)} :
          io' = [io EXCEPT !.report = @ \o
                    <<Message("Modified routine load create statements:"),
                      Line(Join(all_sqls, Separator))>>]
    /\ pc' = "Done"
    /\ UNCHANGED <<args, ret, env, inp, loc, conn>>

NextRun ==
    \/ CollectConnectionParams \/ CollectMode \/ CollectFilters
    \/ FetchTableSchemas \/ ConnectOk \/ ConnectFails
    \/ ExecuteOk \/ ExecuteFails \/ Close
    \/ ReturnSchemas \/ JobsSkip \/ JobsCall \/ ReturnJobs \/ JobsDone
    \/ ModeOne \/ ModeTwo \/ ModeInvalid
    \/ CreateSkip \/ CreateCall \/ ReturnCreate \/ CreateNextDb \/ CreateReturn
    \/ ReportCreateSqls

SpecRun == InitRun /\ [][NextRun]_vars

(***************************************************************************)
(* Claims about a run.                                                     *)
(***************************************************************************)
CallsOf(call, db, name) ==
    {i \in DOMAIN io.queries :
        /\ io.queries[i].call = call
        /\ io.queries[i].db = db
        /\ io.queries[i].name = name}

\* the calls whose query reached the server
QueriesIssued == {i \in DOMAIN io.queries : io.queries[i].outcome # "connect_failed"}

InvalidModeMessage == <<[msg |-> "Invalid mode number.", text |-> <<>>]>>

\* the mode has been read, and it is neither "1" nor "2"
InvalidModeRead ==
    /\ pc \notin {"CollectConnectionParams", "CollectMode"}
    /\ loc.port # 0
    /\ loc.mode \notin {<<"1">>, <<"2">>}

\* the schema query succeeded
SchemasListed ==
    \E i \in CallsOf("schemas", <<>>, <<>>) : io.queries[i].outcome = "ok"

\* the records of schema db that pass the table filter, as the job listing
\* gives them
ExpectedRows(db) ==
    LET Keep(r) == loc.filter_table = <<>> \/ r.TableName = loc.filter_table
        kept == SelectSeq(JobsOf(env, db), Keep)
    IN  [i \in DOMAIN kept |->
            [Name |-> kept[i].Name, DbName |-> db, TableName |-> kept[i].TableName,
             Progress |-> kept[i].Progress]]

\* the text the definition fetch of a job returned, empty when it failed
FetchedText(db, name) ==
    IF \E i \in CallsOf("create", db, name) : io.queries[i].outcome = "ok"
    THEN io.queries[CHOOSE i \in CallsOf("create", db, name) :
                        io.queries[i].outcome = "ok"].text
    ELSE <<>>

Complete(r) == r.Name # <<>> /\ r.DbName # <<>> /\ r.Progress # <<>>

HasEntry(r) == Complete(r) /\ FetchedText(r.DbName, r.Name) # <<>>

(* C6: the mapping get_routine_load_create_sqls_with_offsets returns has an
   entry schema -> name -> text exactly for the records with non-empty name,
   schema and progress whose definition fetch returned a non-empty text; the
   text is patch_group_id(patch_create_sql_dbname(replace_kafka_offsets(
   definition, progress), schema, name)); no schema maps to an empty
   mapping. *)
C6_CreateSqlsMapping ==
    (pc \in {"report", "Done"} /\ loc.mode = <<"2">>) =>
        LET infos == loc.routine_load_infos
            out == loc.create_sqls_dict
        IN  /\ \A a, b \in DOMAIN out : out[a].key = out[b].key => a = b
            /\ \A a \in DOMAIN out : out[a].value # <<>> /\ DictHas(infos, out[a].key)
            /\ \A d \in DOMAIN infos :
                  LET db == infos[d].key
                      rows == infos[d].value
                  IN  /\ DictHas(out, db) <=> \E k \in DOMAIN rows : HasEntry(rows[k])
                      /\ DictHas(out, db) =>
                            /\ \A k \in DOMAIN rows : HasEntry(rows[k]) =>
                                  /\ DictHas(DictAt(out, db), rows[k].Name)
                                  /\ DictAt(DictAt(out, db), rows[k].Name) =
                                        patch_group_id(
                                          patch_create_sql_dbname(
                                            replace_kafka_offsets(
                                              FetchedText(rows[k].DbName, rows[k].Name),
                                              [type |-> "str", text |-> rows[k].Progress]
                                            ).value,
                                            rows[k].DbName, rows[k].Name).value).value
                            /\ \A m \in DOMAIN DictAt(out, db) :
                                  \E k \in DOMAIN rows :
                                      /\ HasEntry(rows[k])
                                      /\ rows[k].Name = DictAt(out, db)[m].key

\* one schema with an entry, one listed schema without, one job whose fetch
\* failed
C6_Witness ==
    /\ pc = "Done" /\ loc.mode = <<"2">>
    /\ loc.create_sqls_dict # <<>>
    /\ \E d \in DOMAIN loc.routine_load_infos :
          ~DictHas(loc.create_sqls_dict, loc.routine_load_infos[d].key)
    /\ \E d \in DOMAIN loc.routine_load_infos :
          \E k \in DOMAIN loc.routine_load_infos[d].value :
              /\ DictHas(loc.create_sqls_dict, loc.routine_load_infos[d].key)
              /\ Complete(loc.routine_load_infos[d].value[k])
              /\ ~HasEntry(loc.routine_load_infos[d].value[k])

(* C7, as the code has it: for a mode other than "1" and "2" the schemas and
   the jobs are still listed (the mode is looked at after that), then the
   run ends having printed the invalid-mode message, without raising; no
   definition query is issued and nothing else is printed. *)
C7_InvalidModeAfterListing ==
    InvalidModeRead =>
        /\ pc # "Raised"
        /\ pc \notin {"get_routine_load_create_sqls_with_offsets", "report"}
        /\ \A i \in DOMAIN io.queries : io.queries[i].call \in {"schemas", "jobs"}
        /\ pc # "Done" => io.report = <<>>
        /\ pc = "Done" =>
              /\ io.report = InvalidModeMessage
              /\ Cardinality(CallsOf("schemas", <<>>, <<>>)) = 1
              /\ SchemasListed =>
                    \A s \in DOMAIN env :
                        (loc.filter_db = <<>> \/ env[s].schema = loc.filter_db) =>
                            Cardinality(CallsOf("jobs", env[s].schema, <<>>)) = 1

(* C7 as stated: for a mode other than "1" and "2" no schema, job or
   definition query is issued to the database. *)
C7_NoQueryIssued == InvalidModeRead => QueriesIssued = {}

\* mode 3: the schemas and the jobs of a schema were listed, then the message
C7_Witness ==
    /\ pc = "Done" /\ inp.mode = <<"3">>
    /\ io.report = InvalidModeMessage
    /\ \E i \in QueriesIssued : io.queries[i].call = "jobs"

\* the statements of main and of the functions it calls at which a run can be
RunLocations ==
    {"CollectConnectionParams", "CollectMode", "CollectFilters", "fetch_table_schemas",
     "connect", "execute", "close", "return", "fetch_routine_load_info", "mode",
     "get_routine_load_create_sqls_with_offsets", "report", "Done"}

(* C8: whatever connections and queries fail, nothing propagates and the run
   is not aborted: once the connection parameters are read the run is at a
   statement of main or at its end, never raised; at its end a failing
   schema has contributed no records, every other schema is listed in full,
   and every job with name, schema and progress of a listed schema has had
   its definition fetched. *)
C8_FailuresContained ==
    /\ pc = "Raised" => loc.port = 0 /\ io.queries = <<>>
    /\ pc # "Raised" => pc \in RunLocations
    /\ pc = "return" => loc.call \in {"schemas", "jobs", "create"}
    /\ (pc = "Done" /\ SchemasListed) =>
          \A s \in DOMAIN env :
              LET db == env[s].schema
                  calls == CallsOf("jobs", db, <<>>)
                  passes == loc.filter_db = <<>> \/ db = loc.filter_db
                  listed == \E i \in calls : io.queries[i].outcome = "ok"
                  infos == loc.routine_load_infos
              IN  /\ Cardinality(calls) = IF passes THEN 1 ELSE 0
                  /\ DictHas(infos, db) <=> (listed /\ ExpectedRows(db) # <<>>)
                  /\ DictHas(infos, db) => DictAt(infos, db) = ExpectedRows(db)
                  /\ (DictHas(infos, db) /\ loc.mode = <<"2">>) =>
                        \A k \in DOMAIN DictAt(infos, db) :
                            LET r == DictAt(infos, db)[k]
                            IN  Cardinality(CallsOf("create", r.DbName, r.Name)) =
                                    IF Complete(r) THEN 1 ELSE 0
    /\ (pc = "Done" /\ ~SchemasListed) => loc.routine_load_infos = <<>>

\* a schema whose listing failed, another that was listed, a job whose fetch
\* failed and another that made it into the report
C8_Witness ==
    /\ pc = "Done" /\ loc.mode = <<"2">>
    /\ \E i \in DOMAIN io.queries :
          io.queries[i].call = "jobs" /\ io.queries[i].outcome # "ok"
    /\ \E i \in DOMAIN io.queries :
          io.queries[i].call = "create" /\ io.queries[i].outcome # "ok"
    /\ loc.create_sqls_dict # <<>>

(* C10: a connection is open only inside the call that opened it, and is
   closed before that call returns, whether the query succeeded or raised;
   a failed connection attempt opens nothing. *)
C10_ConnectionsClosed ==
    /\ conn.cur <=> pc \in {"execute", "close"}
    /\ conn.opened = conn.closed + (IF conn.cur THEN 1 ELSE 0)
    /\ conn.opened = Cardinality(QueriesIssued) + (IF pc = "execute" THEN 1 ELSE 0)

\* a finished run in which calls of all three kinds succeeded, raised, and
\* failed to connect
C10_Witness ==
    /\ pc = "Done"
    /\ conn.opened = conn.closed /\ conn.closed >= 3
    /\ \E i \in DOMAIN io.queries : io.queries[i].outcome = "execute_failed"
    /\ \E i \in DOMAIN io.queries : io.queries[i].outcome = "connect_failed"
    /\ {io.queries[i].call : i \in QueriesIssued} = {"schemas", "jobs", "create"}

Spec == SpecRun

====
